---- MODULE Spec2Model ----
(***************************************************************************)
(* A model of the bullet-hell game: the Game class (session controller    *)
(* and per-frame simulation), the geometry helpers it uses, the frame     *)
(* scheduler (requestAnimationFrame / cancelAnimationFrame) and the       *)
(* high-score store.                                                       *)
(*                                                                         *)
(* Numbers.  The program computes with IEEE doubles; the model computes   *)
(* with fixed-point integers, FP units to the pixel.  Positions,          *)
(* velocities and radii are held in these units, unit vectors have        *)
(* length FP.  Comparisons of distances are made on the squares, which is *)
(* exact.                                                                  *)
(*                                                                         *)
(* Geometry.  Speeds, radii, intervals and scores are the program's.  The *)
(* playfield and the offsets tied to it (start rows, re-target offsets)   *)
(* are reduced so that a bullet crosses the field in a few ticks; the     *)
(* reduction keeps what the program's layout guarantees: the enemies      *)
(* start inside their clamp region, and no bullet fired in the first tick *)
(* of a round reaches anything in that tick.                               *)
(***************************************************************************)
EXTENDS Integers, Sequences, FiniteSets, TLC

\* ---------------------------------------------------------------- numbers
FP == 100

Px(n) == n * FP

Abs(n) == IF n < 0 THEN -n ELSE n

\* a / b rounded to the nearest integer (b > 0)
RoundDiv(a, b) ==
  IF a >= 0 THEN (2 * a + b) \div (2 * b) ELSE -((2 * (-a) + b) \div (2 * b))

RECURSIVE SqrtSearch(_, _, _)
SqrtSearch(n, lo, hi) ==
  IF lo >= hi THEN lo
  ELSE LET mid == (lo + hi + 1) \div 2
       IN IF mid * mid <= n THEN SqrtSearch(n, mid, hi)
                            ELSE SqrtSearch(n, lo, mid - 1)

\* Math.sqrt on the fixed-point grid: the integer part of the root
Sqrt(n) == SqrtSearch(n, 0, IF n < 46340 THEN n ELSE 46340)

Vec(x, y) == [x |-> x, y |-> y]

\* ----------------------------------------------------------------- CONFIG
canvasWidth == 64
canvasHeight == 72
playerSpeed == 5
playerShootCooldown == 500
playerBulletSpeed == 12
playerLives == 5
enemyCount == 3
enemySpeed == 2
enemyShootInterval == 1000
enemyBulletSpeed == 4
enemyBulletDirections == 8
scorePerEnemy == 100

\* ------------------------------------------------- literals of class Game
playerRadius == 8
enemyRadius == 15
playerBulletRadius == 4
enemyBulletRadius == 3
playerStartOffset == 10
enemyStartY == 16
enemyStartSpread == 4
targetChangeInterval == 2000
nearPlayerSpread == 16
nearPlayerAbove == 20
rampUpTime == 10000
enemyBulletMargin == 10
livesBonusPerLife == 100

\* ------------------------------------------------------------------ utils
distSq(a, b) == (a.x - b.x) * (a.x - b.x) + (a.y - b.y) * (a.y - b.y)

distance(a, b) == Sqrt(distSq(a, b))

normalize(v) ==
  LET len == Sqrt(v.x * v.x + v.y * v.y)
  IN IF len = 0 THEN Vec(0, 0)
     ELSE Vec(RoundDiv(v.x * FP, len), RoundDiv(v.y * FP, len))

\* checkCollision with <= for <
checkCollisionInclusive(a, b) ==
  distSq(a.position, b.position) <= (a.radius + b.radius) * (a.radius + b.radius)

\* distance(a.position, b.position) < a.radius + b.radius
checkCollision(a, b) ==
  distSq(a.position, b.position) < (a.radius + b.radius) * (a.radius + b.radius)

Min(a, b) == IF a < b THEN a ELSE b

Max(a, b) == IF a > b THEN a ELSE b

\* clamp with Math.min and Math.max exchanged
clampSwapped(value, min, max) == Min(min, Max(max, value))

clamp(value, min, max) == Max(min, Min(max, value))

getDirectionVector(from, to) == normalize(Vec(to.x - from.x, to.y - from.y))

\* ---------------------------------------------------------------- storage
\* A string of localStorage is a sequence of tokens: a punctuation mark or a
\* word Tok(p), or a number Num(n).
Tok(p) == [p |-> p]

Num(n) == [n |-> n]

IsNum(tok) == "n" \in DOMAIN tok

IsTok(tok, p) == "p" \in DOMAIN tok /\ tok.p = p

\* localStorage.getItem of a key never written: null
NoItem == [present |-> FALSE, text |-> <<>>]

\* the item a key holds after localStorage.setItem(key, text)
setItem(text) == [present |-> TRUE, text |-> text]

\* the text between the brackets of a JSON array of numbers
RECURSIVE joinNumbers(_)
joinNumbers(s) ==
  IF s = <<>> THEN <<>>
  ELSE IF Len(s) = 1 THEN <<Num(s[1])>>
       ELSE <<Num(s[1]), Tok(",")>> \o joinNumbers(Tail(s))

\* JSON.stringify of an array of numbers
JSONstringify(scores) == <<Tok("[")>> \o joinNumbers(scores) \o <<Tok("]")>>

\* JSON.parse: ok is FALSE where it throws a SyntaxError; the values it reads
\* here are a number, a word (true, false, null), the object {} and an array
\* of numbers
JSONparse(text) ==
  LET n == Len(text)
      inner == SubSeq(text, 2, n - 1)
      listed == /\ Len(inner) % 2 = 1
                /\ \A k \in 1 .. Len(inner) :
                     IF k % 2 = 1 THEN IsNum(inner[k]) ELSE IsTok(inner[k], ",")
      scalar == [ok |-> TRUE, isArray |-> FALSE, value |-> <<>>]
      failed == [ok |-> FALSE, isArray |-> FALSE, value |-> <<>>]
  IN IF n = 0 THEN failed
     ELSE IF n = 1
          THEN IF IsNum(text[1]) \/ \E p \in {"true", "false", "null"} : IsTok(text[1], p)
               THEN scalar ELSE failed
          ELSE IF IsTok(text[1], "{")
               THEN IF n = 2 /\ IsTok(text[2], "}") THEN scalar ELSE failed
               ELSE IF IsTok(text[1], "[") /\ IsTok(text[n], "]")
                    THEN IF n = 2
                         THEN [ok |-> TRUE, isArray |-> TRUE, value |-> <<>>]
                         ELSE IF listed
                              THEN [ok |-> TRUE, isArray |-> TRUE,
                                    value |-> [k \in 1 .. (Len(inner) + 1) \div 2 |->
                                                 inner[2 * k - 1].n]]
                              ELSE failed
                    ELSE failed

\* getHighScores without the test Array.isArray
getHighScoresAnyValue(item) ==
  IF ~item.present \/ item.text = <<>> THEN <<0, 0, 0>>
  ELSE LET scores == JSONparse(item.text)
       IN IF scores.ok THEN scores.value ELSE <<0, 0, 0>>

\* getHighScores() when the key holds item
getHighScores(item) ==
  IF ~item.present \/ item.text = <<>> THEN <<0, 0, 0>>
  ELSE LET scores == JSONparse(item.text)
       IN IF scores.ok /\ scores.isArray THEN scores.value ELSE <<0, 0, 0>>

RECURSIVE InsertDesc(_, _)
InsertDesc(s, v) ==
  IF s = <<>> THEN <<v>>
  ELSE IF v > Head(s) THEN <<v>> \o s
       ELSE <<Head(s)>> \o InsertDesc(Tail(s), v)

RECURSIVE SortDesc(_)
SortDesc(s) == IF s = <<>> THEN <<>> ELSE InsertDesc(SortDesc(Tail(s)), Head(s))

\* saveHighScore without the sort
saveHighScoreUnsorted(item, newScore) ==
  LET scores == Append(getHighScores(item), newScore)
      topThree == SubSeq(scores, 1, Min(3, Len(scores)))
  IN [topThree |-> topThree, stored |-> setItem(JSONstringify(topThree))]

\* saveHighScore(newScore) when the key holds item: the list it returns, and
\* the item the key holds afterwards
saveHighScore(item, newScore) ==
  LET scores == SortDesc(Append(getHighScores(item), newScore))
      topThree == SubSeq(scores, 1, Min(3, Len(scores)))
  IN [topThree |-> topThree, stored |-> setItem(JSONstringify(topThree))]

\* getMuteState() when the key holds item
getMuteState(item) == item.present /\ item.text = <<Tok("true")>>

\* the item saveMuteState(muted) writes
saveMuteState(muted) == setItem(<<Tok(IF muted THEN "true" ELSE "false")>>)

\* ------------------------------------------------------------ environment
\* Math.random() returns r / RandomDen for some r in Randoms
RandomDen == 2

Randoms == 0 .. (RandomDen - 1)

\* Date.now() when the page is loaded
Epoch == 100000

\* the time between two events is one of these
DtFrame == 600

DtStall == 10000

Dts == {DtFrame, DtStall}

\* the keys the model presses, of those the game reads (w, a, s, d, m)
Keys == {"w", "m"}

\* the model stops requesting frames after MaxFrames requests, and stops the
\* clock at Epoch + MaxElapsed
MaxFrames == 6

MaxElapsed == 13000

\* the model follows at most MaxKeyEvents key events and MaxControls clicks
\* and stop() calls
MaxKeyEvents == 2

MaxControls == 2

\* the random draws of one round's initEnemies, and of the enemies that choose
\* a new target in one pass: the same draw for every enemy
SameDraw == {[id \in 1 .. enemyCount |-> r] : r \in Randoms}

\* ------------------------------------------------------------------- Game
RemoveAt(s, i) == SubSeq(s, 1, i - 1) \o SubSeq(s, i + 1, Len(s))

NoEnemy == 0

createPlayer ==
  [position |-> Vec(Px(canvasWidth) \div 2, Px(canvasHeight - playerStartOffset)),
   velocity |-> Vec(0, 0),
   radius |-> Px(playerRadius),
   lives |-> playerLives,
   lastShotTime |-> 0]

\* the enemy objects initEnemies creates, by their index i + 1; rnd[i + 1] is
\* the random draw of the i-th iteration
initEnemies(rnd, t) ==
  [id \in 1 .. enemyCount |->
     LET x == RoundDiv(Px(canvasWidth) * id, enemyCount + 1)
         y == Px(enemyStartY) + RoundDiv(rnd[id] * Px(enemyStartSpread), RandomDen)
     IN [position |-> Vec(x, y),
         velocity |-> Vec(0, 0),
         radius |-> Px(enemyRadius),
         lastShotTime |-> 0,
         targetChangeTime |-> t,
         targetPosition |-> Vec(x, y)]]

\* the enemies array after initEnemies: the objects 1 .. enemyCount in order
allEnemies == [i \in 1 .. enemyCount |-> i]

\* this.enemies.reduce(...) without an initial value: the accumulator starts
\* as the first enemy, and a later one replaces it only when strictly nearer
RECURSIVE closestFrom(_, _, _)
closestFrom(w, closest, k) ==
  IF k > Len(w.enemies) THEN closest
  ELSE LET enemy == w.enemies[k]
           distToEnemy == distSq(w.player.position, w.enemyObj[enemy].position)
           distToClosest == distSq(w.player.position, w.enemyObj[closest].position)
       IN closestFrom(w, IF distToEnemy < distToClosest THEN enemy ELSE closest, k + 1)

\* the reduce with a later enemy replacing the accumulator when as near
RECURSIVE closestFromLastTie(_, _, _)
closestFromLastTie(w, closest, k) ==
  IF k > Len(w.enemies) THEN closest
  ELSE LET enemy == w.enemies[k]
           distToEnemy == distSq(w.player.position, w.enemyObj[enemy].position)
           distToClosest == distSq(w.player.position, w.enemyObj[closest].position)
       IN closestFromLastTie(w, IF distToEnemy <= distToClosest THEN enemy ELSE closest,
                             k + 1)

getClosestEnemyLastTie(w) ==
  IF Len(w.enemies) = 0 THEN NoEnemy ELSE closestFromLastTie(w, w.enemies[1], 2)

getClosestEnemy(w) ==
  IF Len(w.enemies) = 0 THEN NoEnemy ELSE closestFrom(w, w.enemies[1], 2)

\* shootPlayerBullet without the test of the cooldown
shootPlayerBulletNoCooldown(w, t) ==
  LET closestEnemy == getClosestEnemy(w)
  IN IF closestEnemy = NoEnemy THEN w
     ELSE [w EXCEPT
             !.player.lastShotTime = t,
             !.playerBullets = Append(@,
                [position |-> w.player.position,
                 velocity |-> Vec(0, 0),
                 radius |-> Px(playerBulletRadius),
                 isPlayerBullet |-> TRUE,
                 targetEnemy |-> closestEnemy])]

shootPlayerBullet(w, t) ==
  IF t - w.player.lastShotTime < playerShootCooldown THEN w
  ELSE LET closestEnemy == getClosestEnemy(w)
       IN IF closestEnemy = NoEnemy THEN w
          ELSE [w EXCEPT
                  !.player.lastShotTime = t,
                  !.playerBullets = Append(@,
                     [position |-> w.player.position,
                      velocity |-> Vec(0, 0),
                      radius |-> Px(playerBulletRadius),
                      isPlayerBullet |-> TRUE,
                      targetEnemy |-> closestEnemy])]

\* updatePlayer without the clamp of the position
updatePlayerUnclamped(w, ks, t) ==
  LET dy0 == (IF "s" \in ks THEN 1 ELSE 0) - (IF "w" \in ks THEN 1 ELSE 0)
      dx0 == (IF "d" \in ks THEN 1 ELSE 0) - (IF "a" \in ks THEN 1 ELSE 0)
      dir == normalize(Vec(Px(dx0), Px(dy0)))
      moved == [w EXCEPT
                  !.player.position = Vec(w.player.position.x + dir.x * playerSpeed,
                                          w.player.position.y + dir.y * playerSpeed)]
  IN IF "m" \in ks THEN shootPlayerBullet(moved, t) ELSE moved

updatePlayer(w, ks, t) ==
  LET dy0 == (IF "s" \in ks THEN 1 ELSE 0) - (IF "w" \in ks THEN 1 ELSE 0)
      dx0 == (IF "d" \in ks THEN 1 ELSE 0) - (IF "a" \in ks THEN 1 ELSE 0)
      dir == normalize(Vec(Px(dx0), Px(dy0)))
      dx == dir.x * playerSpeed
      dy == dir.y * playerSpeed
      moved == [w EXCEPT
                  !.player.position =
                     Vec(clamp(w.player.position.x + dx, w.player.radius,
                               Px(canvasWidth) - w.player.radius),
                         clamp(w.player.position.y + dy, w.player.radius,
                               Px(canvasHeight) - w.player.radius))]
  IN IF "m" \in ks THEN shootPlayerBullet(moved, t) ELSE moved

\* 10000 * cos and 10000 * sin of angleStep * i, angleStep = 2 * pi / 8
cosTable == <<10000, 7071, 0, -7071, -10000, -7071, 0, 7071>>

sinTable == <<0, 7071, 10000, 7071, 0, -7071, -10000, -7071>>

\* the bullet of direction i, 0 <= i < enemyBulletDirections
enemyBullet(e, i) ==
  [position |-> e.position,
   velocity |-> Vec(RoundDiv(cosTable[i + 1] * Px(enemyBulletSpeed), 10000),
                    RoundDiv(sinTable[i + 1] * Px(enemyBulletSpeed), 10000)),
   radius |-> Px(enemyBulletRadius),
   isPlayerBullet |-> FALSE]

\* shootEnemyBullets with its loop one direction short
shootEnemyBulletsShort(w, enemy) ==
  [w EXCEPT !.enemyBullets =
     @ \o [i \in 1 .. enemyBulletDirections - 1 |-> enemyBullet(w.enemyObj[enemy], i - 1)]]

shootEnemyBullets(w, enemy) ==
  [w EXCEPT !.enemyBullets =
     @ \o [i \in 1 .. enemyBulletDirections |-> enemyBullet(w.enemyObj[enemy], i - 1)]]

\* the new target of an enemy whose Math.random() draws are all r / RandomDen
newTarget(w, r) ==
  IF 2 * r < RandomDen
  THEN Vec(RoundDiv(r * Px(canvasWidth), RandomDen),
           RoundDiv(r * (Px(canvasHeight) \div 2), RandomDen))
  ELSE Vec(w.player.position.x
             + RoundDiv((2 * r - RandomDen) * Px(nearPlayerSpread), 2 * RandomDen),
           w.player.position.y - Px(nearPlayerAbove))

\* the iteration without the clamp of the position
updateEnemyUnclamped(w, enemy, t, shootInterval, r) ==
  LET e0 == w.enemyObj[enemy]
      e1 == IF t - e0.targetChangeTime > targetChangeInterval
            THEN [e0 EXCEPT !.targetPosition = newTarget(w, r), !.targetChangeTime = t]
            ELSE e0
      direction == getDirectionVector(e1.position, e1.targetPosition)
      vel == Vec(direction.x * enemySpeed, direction.y * enemySpeed)
      e2 == [e1 EXCEPT !.velocity = vel,
                       !.position = Vec(e1.position.x + vel.x, e1.position.y + vel.y)]
      w2 == [w EXCEPT !.enemyObj[enemy] = e2]
  IN IF t - e2.lastShotTime > shootInterval
     THEN [shootEnemyBullets(w2, enemy) EXCEPT !.enemyObj[enemy].lastShotTime = t]
     ELSE w2

\* one iteration of the loop of updateEnemies
updateEnemy(w, enemy, t, shootInterval, r) ==
  LET e0 == w.enemyObj[enemy]
      e1 == IF t - e0.targetChangeTime > targetChangeInterval
            THEN [e0 EXCEPT !.targetPosition = newTarget(w, r), !.targetChangeTime = t]
            ELSE e0
      direction == getDirectionVector(e1.position, e1.targetPosition)
      vel == Vec(direction.x * enemySpeed, direction.y * enemySpeed)
      e2 == [e1 EXCEPT
               !.velocity = vel,
               !.position = Vec(clamp(e1.position.x + vel.x, e1.radius,
                                      Px(canvasWidth) - e1.radius),
                                clamp(e1.position.y + vel.y, e1.radius,
                                      Px(canvasHeight) \div 2))]
      w2 == [w EXCEPT !.enemyObj[enemy] = e2]
  IN IF t - e2.lastShotTime > shootInterval
     THEN [shootEnemyBullets(w2, enemy) EXCEPT !.enemyObj[enemy].lastShotTime = t]
     ELSE w2

RECURSIVE updateEnemiesFrom(_, _, _, _, _)
updateEnemiesFrom(w, k, t, shootInterval, rnd) ==
  IF k > Len(w.enemies) THEN w
  ELSE updateEnemiesFrom(updateEnemy(w, w.enemies[k], t, shootInterval, rnd[w.enemies[k]]),
                         k + 1, t, shootInterval, rnd)

\* the interval halved only after more than rampUpTime
shootIntervalAtLate(t, startTime) ==
  IF t - startTime > rampUpTime THEN enemyShootInterval \div 2 ELSE enemyShootInterval

shootIntervalAt(t, startTime) ==
  IF t - startTime >= rampUpTime THEN enemyShootInterval \div 2 ELSE enemyShootInterval

updateEnemies(w, t, startTime, rnd) ==
  updateEnemiesFrom(w, 1, t, shootIntervalAt(t, startTime), rnd)

\* the loop body without the homing: the bullet keeps the velocity it has
movePlayerBulletStraight(w, bullet) ==
  [bullet EXCEPT !.position = Vec(bullet.position.x + bullet.velocity.x,
                                  bullet.position.y + bullet.velocity.y)]

\* the body of the loop over playerBullets in updateBullets
movePlayerBullet(w, bullet) ==
  LET vel == IF bullet.targetEnemy # NoEnemy
             THEN LET direction == getDirectionVector(bullet.position,
                                      w.enemyObj[bullet.targetEnemy].position)
                  IN Vec(direction.x * playerBulletSpeed, direction.y * playerBulletSpeed)
             ELSE bullet.velocity
  IN [bullet EXCEPT !.velocity = vel,
                    !.position = Vec(bullet.position.x + vel.x, bullet.position.y + vel.y)]

moveEnemyBullet(bullet) ==
  [bullet EXCEPT !.position = Vec(bullet.position.x + bullet.velocity.x,
                                  bullet.position.y + bullet.velocity.y)]

inPlayerBulletBounds(bullet) ==
  /\ bullet.position.x >= 0
  /\ bullet.position.x <= Px(canvasWidth)
  /\ bullet.position.y >= 0
  /\ bullet.position.y <= Px(canvasHeight)

\* the filter of the enemy bullets with a bullet on the edge removed
inEnemyBulletBoundsStrict(bullet) ==
  /\ bullet.position.x > -Px(enemyBulletMargin)
  /\ bullet.position.x < Px(canvasWidth) + Px(enemyBulletMargin)
  /\ bullet.position.y > -Px(enemyBulletMargin)
  /\ bullet.position.y < Px(canvasHeight) + Px(enemyBulletMargin)

inEnemyBulletBounds(bullet) ==
  /\ bullet.position.x >= -Px(enemyBulletMargin)
  /\ bullet.position.x <= Px(canvasWidth) + Px(enemyBulletMargin)
  /\ bullet.position.y >= -Px(enemyBulletMargin)
  /\ bullet.position.y <= Px(canvasHeight) + Px(enemyBulletMargin)

updateBullets(w) ==
  LET pb == [i \in 1 .. Len(w.playerBullets) |-> movePlayerBullet(w, w.playerBullets[i])]
      eb == [i \in 1 .. Len(w.enemyBullets) |-> moveEnemyBullet(w.enemyBullets[i])]
  IN [w EXCEPT !.playerBullets = SelectSeq(pb, inPlayerBulletBounds),
               !.enemyBullets = SelectSeq(eb, inEnemyBulletBounds)]

\* the largest index j <= from in the set touching of the indices whose
\* object touches, or 0: where a loop that scans from the end down to 1 and
\* breaks at its first hit stops
lastHit(touching, from) ==
  LET found == {j \in touching : j <= from}
  IN IF found = {} THEN 0 ELSE CHOOSE j \in found : \A k \in found : k <= j

\* gameClear with the bonus taken from the configured lives
gameClearFullBonus(w) ==
  LET finalScore == w.score + playerLives * livesBonusPerLife
  IN [w EXCEPT !.state = "gameClear",
               !.stored = saveHighScore(w.stored, finalScore).stored,
               !.reported = Append(@, finalScore)]

gameOver(w) ==
  [w EXCEPT !.state = "gameOver",
            !.stored = saveHighScore(w.stored, w.score).stored,
            !.reported = Append(@, w.score)]

gameClear(w) ==
  LET livesBonus == w.player.lives * livesBonusPerLife
      finalScore == w.score + livesBonus
  IN [w EXCEPT !.state = "gameClear",
               !.stored = saveHighScore(w.stored, finalScore).stored,
               !.reported = Append(@, finalScore)]

\* the first loop without its break: a bullet destroys every enemy it touches
RECURSIVE bulletsVsEnemiesNoBreak(_, _)
bulletsVsEnemiesNoBreak(w, i) ==
  IF i = 0 THEN w
  ELSE LET bullet == w.playerBullets[i]
           touched(id) == checkCollision(bullet, w.enemyObj[id])
           left == SelectSeq(w.enemies, LAMBDA id : ~touched(id))
       IN IF Len(left) = Len(w.enemies) THEN bulletsVsEnemiesNoBreak(w, i - 1)
          ELSE bulletsVsEnemiesNoBreak(
                 [w EXCEPT !.playerBullets = RemoveAt(@, i),
                           !.enemies = left,
                           !.score = @ + scorePerEnemy * (Len(w.enemies) - Len(left))],
                 i - 1)

\* the first loop with a kill that removes the enemy and leaves the score
RECURSIVE bulletsVsEnemiesNoScore(_, _)
bulletsVsEnemiesNoScore(w, i) ==
  IF i = 0 THEN w
  ELSE LET bullet == w.playerBullets[i]
           touching == {k \in 1 .. Len(w.enemies) :
                          checkCollision(bullet, w.enemyObj[w.enemies[k]])}
           j == lastHit(touching, Len(w.enemies))
       IN IF j = 0 THEN bulletsVsEnemiesNoScore(w, i - 1)
          ELSE bulletsVsEnemiesNoScore(
                 [w EXCEPT !.playerBullets = RemoveAt(@, i),
                           !.enemies = RemoveAt(@, j)], i - 1)

\* player bullets against enemies, i from the last bullet down to the first
RECURSIVE bulletsVsEnemies(_, _)
bulletsVsEnemies(w, i) ==
  IF i = 0 THEN w
  ELSE LET bullet == w.playerBullets[i]
           touching == {k \in 1 .. Len(w.enemies) :
                          checkCollision(bullet, w.enemyObj[w.enemies[k]])}
           j == lastHit(touching, Len(w.enemies))
       IN IF j = 0 THEN bulletsVsEnemies(w, i - 1)
          ELSE bulletsVsEnemies(
                 [w EXCEPT !.playerBullets = RemoveAt(@, i),
                           !.enemies = RemoveAt(@, j),
                           !.score = @ + scorePerEnemy], i - 1)

\* player bullets against enemy bullets
RECURSIVE bulletsVsBullets(_, _)
bulletsVsBullets(w, i) ==
  IF i = 0 THEN w
  ELSE LET playerBullet == w.playerBullets[i]
           touching == {k \in 1 .. Len(w.enemyBullets) :
                          checkCollision(playerBullet, w.enemyBullets[k])}
           j == lastHit(touching, Len(w.enemyBullets))
       IN IF j = 0 THEN bulletsVsBullets(w, i - 1)
          ELSE bulletsVsBullets(
                 [w EXCEPT !.playerBullets = RemoveAt(@, i),
                           !.enemyBullets = RemoveAt(@, j)], i - 1)

\* enemy bullets against the player, i from the last bullet down to the
\* first: the loop body acts at the indices below from whose bullet touches
\* the player (the body changes neither the player's position nor a bullet
\* of a lower index), so the model steps from one such index to the next
RECURSIVE bulletsVsPlayer(_, _)
bulletsVsPlayer(w, from) ==
  LET touching == {k \in 1 .. from : checkCollision(w.enemyBullets[k], w.player)}
      i == lastHit(touching, from)
  IN IF i = 0 THEN w
     ELSE LET hurt == [w EXCEPT !.enemyBullets = RemoveAt(@, i),
                                !.player.lives = @ - 1,
                                !.hits = @ + 1]
          IN bulletsVsPlayer(IF hurt.player.lives <= 0 THEN gameOver(hurt) ELSE hurt,
                             i - 1)

\* checkCollisions with its first two loops exchanged
checkCollisionsCancelFirst(w) ==
  LET w1 == bulletsVsBullets(w, Len(w.playerBullets))
      w2 == bulletsVsEnemies(w1, Len(w1.playerBullets))
      w3 == bulletsVsPlayer(w2, Len(w2.enemyBullets))
  IN IF Len(w3.enemies) = 0 /\ w3.state = "playing" THEN gameClear(w3) ELSE w3

\* checkCollisions whose last test does not look at the state
checkCollisionsClearAlways(w) ==
  LET w1 == bulletsVsEnemies(w, Len(w.playerBullets))
      w2 == bulletsVsBullets(w1, Len(w1.playerBullets))
      w3 == bulletsVsPlayer(w2, Len(w2.enemyBullets))
  IN IF Len(w3.enemies) = 0 THEN gameClear(w3) ELSE w3

checkCollisions(w) ==
  LET w1 == bulletsVsEnemies(w, Len(w.playerBullets))
      w2 == bulletsVsBullets(w1, Len(w1.playerBullets))
      w3 == bulletsVsPlayer(w2, Len(w2.enemyBullets))
  IN IF Len(w3.enemies) = 0 /\ w3.state = "playing" THEN gameClear(w3) ELSE w3

\* the updates of one pass of gameLoop in the playing state
update(w, ks, t, startTime, rnd) ==
  checkCollisions(updateBullets(updateEnemies(
    updatePlayer([w EXCEPT !.hits = 0], ks, t), t, startTime, rnd)))

\* ------------------------------------------------------------------ audio
\* null, for bgmOscillator, bgmGain and bgmInterval; the nodes and the timers
\* are numbered from 1 in the order of their creation
NoNode == 0

\* the frequency pattern of the background music
frequencies == <<262, 330, 392, 523>>

\* the module as it is loaded with the item held under the mute key: its
\* variables, the oscillators that were started and not stopped, and the
\* interval timers that were set and not cleared, each with the currentIndex
\* of its callback
loadAudio(item) ==
  [isMutedState |-> getMuteState(item),
   audioContext |-> FALSE,
   bgmOscillator |-> NoNode,
   bgmGain |-> NoNode,
   bgmInterval |-> NoNode,
   frequency |-> 0,
   oscillators |-> {},
   timers |-> {},
   created |-> 0,
   muteItem |-> item,
   call |-> "load",
   silenced |-> FALSE]

stopBGM(a) ==
  [a EXCEPT
     !.timers = {timer \in @ : timer.id # a.bgmInterval},
     !.bgmInterval = NoNode,
     !.oscillators = @ \ {a.bgmOscillator},
     !.bgmOscillator = NoNode,
     !.bgmGain = NoNode,
     !.silenced = a.bgmOscillator # NoNode]

\* startBGM; contextMade tells whether ensureAudioContext returns a context
\* or the constructor of the context throws
startBGM(a, contextMade) ==
  IF a.isMutedState THEN a
  ELSE LET a1 == IF a.bgmOscillator # NoNode THEN stopBGM(a) ELSE a
           id == a.created + 1
       IN IF ~(a1.audioContext \/ contextMade) THEN a1
          ELSE [a1 EXCEPT
                  !.audioContext = TRUE,
                  !.bgmOscillator = id,
                  !.bgmGain = id,
                  !.frequency = frequencies[1],
                  !.oscillators = @ \cup {id},
                  !.bgmInterval = id,
                  !.timers = @ \cup {[id |-> id, currentIndex |-> 0]},
                  !.created = id]

\* toggleMute that leaves the background music as it is
toggleMuteOnly(a) ==
  LET newState == ~a.isMutedState
  IN [a EXCEPT !.isMutedState = newState, !.muteItem = saveMuteState(newState)]

toggleMute(a) ==
  LET newState == ~a.isMutedState
      a1 == [a EXCEPT !.isMutedState = newState, !.muteItem = saveMuteState(newState)]
  IN IF newState /\ a1.bgmOscillator # NoNode THEN stopBGM(a1) ELSE a1

\* the callback of the interval timer
bgmTick(a, timer) ==
  IF a.bgmOscillator # NoNode /\ ~a.isMutedState
  THEN LET currentIndex == (timer.currentIndex + 1) % Len(frequencies)
       IN [a EXCEPT
             !.timers = (@ \ {timer}) \cup {[timer EXCEPT !.currentIndex = currentIndex]},
             !.frequency = frequencies[currentIndex + 1]]
  ELSE a

\* ------------------------------------------------------------------ state
VARIABLES
  player,          \* Game.player
  enemyObj,        \* the Enemy objects of the round, by identity
  enemies,         \* Game.enemies: the identities of the enemies in the array
  playerBullets,   \* Game.playerBullets
  enemyBullets,    \* Game.enemyBullets
  state,           \* Game.state
  score,           \* Game.score
  keys,            \* Game.keys
  animationId,     \* Game.animationId
  gameStartTime,   \* Game.gameStartTime
  stored,          \* localStorage[HIGH_SCORES_KEY]
  reported,        \* the scores gameOver and gameClear saved in this round
  hits,            \* the enemy bullets that hit the player in the latest pass
  lastEvent,       \* the handler that ran last
  pending,         \* the callbacks requestAnimationFrame holds, by request id
  frames,          \* the number of requestAnimationFrame calls so far
  now,             \* Date.now()
  started,         \* init() has called game.start()
  halted,          \* stop() was called and no start, resume or restart since
  keyEvents,       \* the number of key events so far
  controls,        \* the number of clicks and stop() calls so far
  probe,           \* the call of a function on its own: its inputs and its result
  audio            \* the variables of the audio module, and the nodes and timers it made

\* no function was called on its own
NoProbe == [fn |-> "none"]

gameVars == <<player, enemyObj, enemies, playerBullets, enemyBullets, state, score,
              gameStartTime, stored, reported, hits>>

vars == <<player, enemyObj, enemies, playerBullets, enemyBullets, state, score, keys,
          animationId, gameStartTime, stored, reported, hits, lastEvent, pending, frames,
          now, started, halted, keyEvents, controls, probe, audio>>

\* the fields a pass of gameLoop reads and writes, as one value
World ==
  [player |-> player, enemyObj |-> enemyObj, enemies |-> enemies,
   playerBullets |-> playerBullets, enemyBullets |-> enemyBullets,
   state |-> state, score |-> score, gameStartTime |-> gameStartTime,
   stored |-> stored, reported |-> reported, hits |-> hits]

Commit(w) ==
  /\ player' = w.player
  /\ enemyObj' = w.enemyObj
  /\ enemies' = w.enemies
  /\ playerBullets' = w.playerBullets
  /\ enemyBullets' = w.enemyBullets
  /\ state' = w.state
  /\ score' = w.score
  /\ gameStartTime' = w.gameStartTime
  /\ stored' = w.stored
  /\ reported' = w.reported
  /\ hits' = w.hits

Range(s) == {s[i] : i \in DOMAIN s}

\* the enemies that choose a new target in a pass at time t
Retargeting(w, t) ==
  {id \in Range(w.enemies) : t - w.enemyObj[id].targetChangeTime > targetChangeInterval}

\* the random draws of a pass: one per enemy that chooses a new target
Draws(w, t) ==
  IF Retargeting(w, t) = {} THEN {[id \in 1 .. enemyCount |-> 0]} ELSE SameDraw

\* requestAnimationFrame(this.gameLoop) with the callbacks pend outstanding
requestAnimationFrame(pend) ==
  /\ frames' = frames + 1
  /\ animationId' = frames + 1
  /\ pending' = pend \cup {frames + 1}

\* gameLoop with its test of the state after the request of the next frame
gameLoopRequestsFirst(w, t, pend) ==
  /\ frames < MaxFrames
  /\ IF w.state # "playing"
     THEN Commit(w)
     ELSE \E rnd \in Draws(w, t) : Commit(update(w, keys, t, w.gameStartTime, rnd))
  /\ requestAnimationFrame(pend)

\* gameLoop without its test of the state
gameLoopAlways(w, t, pend) ==
  /\ frames < MaxFrames
  /\ \E rnd \in Draws(w, t) : Commit(update(w, keys, t, w.gameStartTime, rnd))
  /\ requestAnimationFrame(pend)

\* gameLoop() entered at time t in the world w, with the callbacks pend
gameLoop(w, t, pend) ==
  IF w.state # "playing"
  THEN /\ Commit(w)
       /\ pending' = pend
       /\ UNCHANGED <<animationId, frames>>
  ELSE /\ frames < MaxFrames
       /\ \E rnd \in Draws(w, t) : Commit(update(w, keys, t, w.gameStartTime, rnd))
       /\ requestAnimationFrame(pend)

\* the game as it is constructed
GameInit ==
  /\ player = createPlayer
  /\ \E rnd \in SameDraw : enemyObj = initEnemies(rnd, Epoch)
  /\ enemies = allEnemies
  /\ playerBullets = <<>>
  /\ enemyBullets = <<>>
  /\ state = "playing"
  /\ score = 0
  /\ keys = {}
  /\ animationId = 0
  /\ gameStartTime = 0
  /\ stored = NoItem
  /\ reported = <<>>
  /\ hits = 0
  /\ lastEvent = "init"
  /\ pending = {}
  /\ frames = 0
  /\ now = Epoch
  /\ started = FALSE
  /\ halted = FALSE
  /\ keyEvents = 0
  /\ controls = 0
  /\ probe = NoProbe

\* the page as it is loaded with nothing under the mute key
Init ==
  /\ GameInit
  /\ audio = loadAudio(NoItem)

\* init(): game.start()
Start ==
  /\ ~started
  /\ started' = TRUE
  /\ halted' = FALSE
  /\ lastEvent' = "start"
  /\ gameLoop([World EXCEPT !.stored = saveHighScore(stored, 0).stored, !.gameStartTime = now],
              now, pending)
  /\ UNCHANGED <<audio, probe, keys, now, keyEvents, controls>>

\* the frame scheduler runs the oldest callback it holds
FrameCallback ==
  /\ pending # {}
  /\ \E dt \in Dts :
       /\ now + dt <= Epoch + MaxElapsed
       /\ now' = now + dt
       /\ LET id == CHOOSE i \in pending : \A k \in pending : i <= k
          IN gameLoop(World, now + dt, pending \ {id})
  /\ lastEvent' = "frame"
  /\ UNCHANGED <<audio, probe, keys, started, halted, keyEvents, controls>>

\* togglePause resuming from every state but playing
TogglePauseAny ==
  /\ started
  /\ controls < MaxControls
  /\ controls' = controls + 1
  /\ lastEvent' = "togglePause"
  /\ IF state = "playing"
     THEN /\ state' = "paused"
          /\ UNCHANGED <<player, enemyObj, enemies, playerBullets, enemyBullets, score,
                         gameStartTime, stored, reported, hits, animationId, pending,
                         frames, halted>>
     ELSE /\ gameLoop([World EXCEPT !.state = "playing"], now, pending)
          /\ halted' = FALSE
  /\ UNCHANGED <<audio, probe, keys, now, started, keyEvents>>

\* togglePause that only pauses
TogglePauseOnly ==
  /\ started
  /\ controls < MaxControls
  /\ controls' = controls + 1
  /\ lastEvent' = "togglePause"
  /\ state' = IF state = "playing" THEN "paused" ELSE state
  /\ UNCHANGED <<player, enemyObj, enemies, playerBullets, enemyBullets, score,
                 gameStartTime, stored, reported, hits, animationId, pending, frames,
                 halted>>
  /\ UNCHANGED <<audio, probe, keys, now, started, keyEvents>>

\* a click on pauseBtn or continueBtn
TogglePause ==
  /\ started
  /\ controls < MaxControls
  /\ controls' = controls + 1
  /\ lastEvent' = "togglePause"
  /\ IF state = "playing"
     THEN /\ state' = "paused"
          /\ UNCHANGED <<player, enemyObj, enemies, playerBullets, enemyBullets, score,
                         gameStartTime, stored, reported, hits, animationId, pending,
                         frames, halted>>
     ELSE IF state = "paused"
          THEN /\ gameLoop([World EXCEPT !.state = "playing"], now, pending)
               /\ halted' = FALSE
          ELSE UNCHANGED <<gameVars, animationId, pending, frames, halted>>
  /\ UNCHANGED <<audio, probe, keys, now, started, keyEvents>>

\* restart without the reset of the score
RestartKeepsScore ==
  /\ started
  /\ controls < MaxControls
  /\ controls' = controls + 1
  /\ lastEvent' = "restart"
  /\ \E rnd \in SameDraw :
       gameLoop([World EXCEPT !.player = createPlayer,
                              !.enemyObj = initEnemies(rnd, now),
                              !.enemies = allEnemies,
                              !.playerBullets = <<>>,
                              !.enemyBullets = <<>>,
                              !.gameStartTime = now,
                              !.state = "playing",
                              !.reported = <<>>],
                now, pending)
  /\ halted' = FALSE
  /\ UNCHANGED <<audio, probe, keys, now, started, keyEvents>>

\* a click on restartBtn
Restart ==
  /\ started
  /\ controls < MaxControls
  /\ controls' = controls + 1
  /\ lastEvent' = "restart"
  /\ \E rnd \in SameDraw :
       gameLoop([World EXCEPT !.player = createPlayer,
                              !.enemyObj = initEnemies(rnd, now),
                              !.enemies = allEnemies,
                              !.playerBullets = <<>>,
                              !.enemyBullets = <<>>,
                              !.score = 0,
                              !.gameStartTime = now,
                              !.state = "playing",
                              !.reported = <<>>],
                now, pending)
  /\ halted' = FALSE
  /\ UNCHANGED <<audio, probe, keys, now, started, keyEvents>>

\* game.stop()
Stop ==
  /\ started
  /\ controls < MaxControls
  /\ controls' = controls + 1
  /\ pending' = pending \ {animationId}
  /\ halted' = TRUE
  /\ lastEvent' = "stop"
  /\ UNCHANGED <<audio, probe, gameVars, keys, animationId, frames, now, started, keyEvents>>

KeyDown ==
  \E k \in Keys \ keys :
    /\ keyEvents < MaxKeyEvents
    /\ keyEvents' = keyEvents + 1
    /\ keys' = keys \cup {k}
    /\ lastEvent' = "keydown"
    /\ UNCHANGED <<audio, probe, gameVars, animationId, pending, frames,
                   now, started, halted, controls>>

KeyUp ==
  \E k \in keys :
    /\ keyEvents < MaxKeyEvents
    /\ keyEvents' = keyEvents + 1
    /\ keys' = keys \ {k}
    /\ lastEvent' = "keyup"
    /\ UNCHANGED <<audio, probe, gameVars, animationId, pending, frames,
                   now, started, halted, controls>>

Next ==
  \/ Start
  \/ FrameCallback
  \/ TogglePause
  \/ Restart
  \/ Stop
  \/ KeyDown
  \/ KeyUp

Spec == Init /\ [][Next]_vars

\* ------------------------------------------------- the player's movement
\* the direction keys of updatePlayer
MoveKeys == {"w", "a", "s", "d"}

\* keydown of a direction key
MoveKeyDown ==
  \E k \in MoveKeys \ keys :
    /\ keyEvents < MaxKeyEvents
    /\ keyEvents' = keyEvents + 1
    /\ keys' = keys \cup {k}
    /\ lastEvent' = "keydown"
    /\ UNCHANGED <<audio, probe, gameVars, animationId, pending, frames,
                   now, started, halted, controls>>

MoveNext ==
  \/ Start
  \/ FrameCallback
  \/ TogglePause
  \/ Restart
  \/ MoveKeyDown
  \/ KeyUp

\* the game played with the direction keys
MoveSpec == Init /\ [][MoveNext]_vars

\* ------------------------------------------- functions called on their own
\* the functions of utils and of the store, each called once on inputs of a
\* small set, and saveHighScore called again and again on an empty store

\* the coordinates and the radii of the circles given to checkCollision
GridMax == 4

RadiusMax == 3

Circles ==
  {[position |-> Vec(x, y), radius |-> r] :
     x \in 0 .. GridMax, y \in 0 .. GridMax, r \in 1 .. RadiusMax}

\* the numbers given to clamp
ClampMax == 4

ClampValues == (0 - ClampMax) .. ClampMax

\* the scores given to saveHighScore
ScoreSteps == 3

Scores == {k * scorePerEnemy : k \in 0 .. ScoreSteps}

\* what the key may hold when getHighScores or getMuteState reads it, with
\* what it is: nothing, a text that is no JSON, JSON that is no array, or the
\* JSON of an array of numbers
Items ==
  {[kind |-> "missing", item |-> NoItem],
   [kind |-> "invalid", item |-> setItem(<<>>)],
   [kind |-> "invalid", item |-> setItem(<<Tok("?")>>)],
   [kind |-> "invalid", item |-> setItem(<<Tok("["), Num(1)>>)],
   [kind |-> "invalid", item |-> setItem(<<Tok("["), Num(1), Num(2), Tok("]")>>)],
   [kind |-> "invalid", item |-> setItem(<<Tok("["), Num(1), Tok(","), Tok("]")>>)],
   [kind |-> "invalid", item |-> setItem(<<Tok("{"), Tok("]")>>)],
   [kind |-> "notArray", item |-> setItem(<<Num(5)>>)],
   [kind |-> "notArray", item |-> setItem(<<Tok("{"), Tok("}")>>)],
   [kind |-> "notArray", item |-> setItem(<<Tok("null")>>)],
   [kind |-> "notArray", item |-> saveMuteState(TRUE)],
   [kind |-> "notArray", item |-> saveMuteState(FALSE)]}
  \cup {[kind |-> "array", item |-> setItem(JSONstringify(scores))] :
          scores \in {<<>>, <<7>>, <<3, 2, 1>>, <<1, 2, 3, 4>>}}

\* everything but probe and stored
unitFrame == <<audio, player, enemyObj, enemies, playerBullets, enemyBullets, state, score,
               gameStartTime, reported, hits, keys, animationId, lastEvent, pending,
               frames, now, started, halted, keyEvents, controls>>

CallCheckCollision ==
  /\ probe = NoProbe
  /\ \E a \in Circles, b \in Circles :
       probe' = [fn |-> "checkCollision", a |-> a, b |-> b, out |-> checkCollision(a, b)]
  /\ UNCHANGED <<unitFrame, stored>>

CallClamp ==
  /\ probe = NoProbe
  /\ \E value \in ClampValues, min \in ClampValues, max \in ClampValues :
       /\ min <= max
       /\ probe' = [fn |-> "clamp", value |-> value, min |-> min, max |-> max,
                    out |-> clamp(value, min, max)]
  /\ UNCHANGED <<unitFrame, stored>>

CallGetHighScores ==
  /\ probe = NoProbe
  /\ \E held \in Items :
       probe' = [fn |-> "getHighScores", held |-> held, out |-> getHighScores(held.item)]
  /\ UNCHANGED <<unitFrame, stored>>

CallGetMuteState ==
  /\ probe = NoProbe
  /\ \E held \in Items :
       probe' = [fn |-> "getMuteState", held |-> held, out |-> getMuteState(held.item)]
  /\ UNCHANGED <<unitFrame, stored>>

\* saveHighScore(newScore) on the store as the calls before it left it
CallSaveHighScore ==
  /\ probe.fn \in {"none", "saveHighScore"}
  /\ \E newScore \in Scores :
       LET saved == saveHighScore(stored, newScore)
       IN /\ stored' = saved.stored
          /\ probe' = [fn |-> "saveHighScore", newScore |-> newScore,
                       loaded |-> getHighScores(stored), out |-> saved.topThree]
  /\ UNCHANGED unitFrame

\* checkCollisions called on its own, on worlds as the moves of a tick may
\* leave them: the player and the enemies at fixed places, and up to
\* MaxProbeBullets bullets of each side at places that touch them, touch a
\* bullet of the other side, or touch nothing
MaxProbeBullets == 2

probePlayerAt == Vec(Px(32), Px(62))

\* enemies 1 and 2 near enough to each other for one bullet to touch both
probeEnemyAt == <<Vec(Px(22), Px(30)), Vec(Px(42), Px(30)), Vec(Px(49), Px(15))>>

\* between enemies 1 and 2; above the player, clear of the enemies; left of
\* enemy 1
PlayerBulletSpots == {Vec(Px(32), Px(30)), Vec(Px(32), Px(54)), Vec(Px(12), Px(30))}

\* on the first player-bullet spot; on the second and on the player; on the
\* player, twice; on nothing
EnemyBulletSpots ==
  {Vec(Px(32), Px(34)), Vec(Px(32), Px(56)), Vec(Px(32), Px(70)), Vec(Px(38), Px(62)),
   Vec(Px(60), Px(10))}

SeqsUpTo(S, n) == UNION {[1 .. k -> S] : k \in 0 .. n}

\* what is left of the enemies array after some of the enemies are gone
EnemyArrays ==
  {SelectSeq(allEnemies, LAMBDA id : id \in S) : S \in (SUBSET (1 .. enemyCount)) \ {{}}}

ProbeLives == {1, 2, playerLives}

probeWorld(ids, pbs, ebs, lives) ==
  [World EXCEPT
     !.player.position = probePlayerAt,
     !.player.lives = lives,
     !.enemyObj = [id \in 1 .. enemyCount |->
                     [enemyObj[id] EXCEPT !.position = probeEnemyAt[id],
                                          !.targetPosition = probeEnemyAt[id]]],
     !.enemies = ids,
     !.score = scorePerEnemy * (enemyCount - Len(ids)),
     !.playerBullets = [i \in 1 .. Len(pbs) |->
                          [position |-> pbs[i],
                           velocity |-> Vec(0, 0 - Px(playerBulletSpeed)),
                           radius |-> Px(playerBulletRadius),
                           isPlayerBullet |-> TRUE,
                           targetEnemy |-> ids[1]]],
     !.enemyBullets = [i \in 1 .. Len(ebs) |->
                         [enemyBullet(enemyObj[ids[1]], 2) EXCEPT !.position = ebs[i]]]]

CallCheckCollisions ==
  /\ probe = NoProbe
  /\ \E ids \in EnemyArrays, lives \in ProbeLives,
        pbs \in SeqsUpTo(PlayerBulletSpots, MaxProbeBullets),
        ebs \in SeqsUpTo(EnemyBulletSpots, MaxProbeBullets) :
       /\ \A i, j \in 1 .. Len(pbs) : i # j => pbs[i] # pbs[j]
       /\ LET w == probeWorld(ids, pbs, ebs, lives)
          IN /\ probe' = [fn |-> "checkCollisions", w |-> w]
             /\ Commit(checkCollisions(w))
  /\ UNCHANGED <<audio, keys, animationId, lastEvent, pending, frames, now, started, halted,
                 keyEvents, controls>>

\* updatePlayer called on its own, again and again: each call some time after
\* the one before, with some keys held and with what is left of the enemies
MaxPlayerCalls == 3

\* the time between two calls: none, less than the cooldown, the cooldown, more
ShotDts == {0, playerShootCooldown \div 2, playerShootCooldown - 1, playerShootCooldown,
            DtFrame}

ShotKeys == {{}, {"m"}, {"m", "a"}}

\* the enemies array with some of its enemies gone, or all of them
EnemiesLeft ==
  {SelectSeq(enemies, LAMBDA id : id \in S) : S \in SUBSET Range(enemies)}

CallUpdatePlayer ==
  /\ probe.fn \in {"none", "updatePlayer"}
  /\ (probe.fn = "updatePlayer") => (probe.calls < MaxPlayerCalls)
  /\ \E dt \in ShotDts, ks \in ShotKeys, ids \in EnemiesLeft :
       /\ now' = now + dt
       /\ keys' = ks
       /\ probe' = [fn |-> "updatePlayer",
                    calls |-> IF probe.fn = "none" THEN 1 ELSE probe.calls + 1]
       /\ Commit(updatePlayer([World EXCEPT !.enemies = ids], ks, now + dt))
  /\ UNCHANGED <<audio, animationId, lastEvent, pending, frames, started, halted, keyEvents,
                 controls>>

\* getClosestEnemy called on its own, with the enemies at the places of
\* probeEnemyAt and the player at a place as far from enemy 1 as from enemy 2,
\* as far from enemy 2 as from enemy 3, or nearest to one enemy
ClosestSpots ==
  {probePlayerAt, Vec(Px(38), Px(19)), Vec(Px(60), Px(10)), Vec(Px(12), Px(40)),
   Vec(Px(40), Px(36))}

CallGetClosestEnemy ==
  /\ probe = NoProbe
  /\ \E at \in ClosestSpots, ids \in EnemyArrays \cup {<<>>} :
       LET w == [World EXCEPT
                   !.player.position = at,
                   !.enemyObj = [id \in 1 .. enemyCount |->
                                   [enemyObj[id] EXCEPT !.position = probeEnemyAt[id]]],
                   !.enemies = ids]
       IN probe' = [fn |-> "getClosestEnemy", w |-> w, out |-> getClosestEnemy(w)]
  /\ UNCHANGED <<unitFrame, stored>>

\* updateEnemies called on its own, again and again, in a round that starts
\* with the first call: each call some time after the one before
MaxEnemyCalls == 4

\* the time between two calls: none, a frame, a frame less than the ramp, the
\* ramp
EnemyDts == {0, DtFrame, rampUpTime - DtFrame, rampUpTime}

\* where the player is in that round: at the start position, or in a top
\* corner of the playfield
PlayerSpots ==
  {createPlayer.position,
   Vec(Px(playerRadius), Px(playerRadius)),
   Vec(Px(canvasWidth) - Px(playerRadius), Px(playerRadius))}

\* how far below their start positions the enemies are when the calls begin:
\* not at all, or as far as the lower edge of their region lets all of them
EnemyDrops == {0, Px(canvasHeight) \div 2 - Px(enemyStartY) - Px(enemyStartSpread)}

CallUpdateEnemies ==
  /\ probe.fn \in {"none", "updateEnemies"}
  /\ (probe.fn = "updateEnemies") => (probe.calls < MaxEnemyCalls)
  /\ \E dt \in EnemyDts,
        at \in IF probe.fn = "none" THEN PlayerSpots ELSE {player.position},
        drop \in IF probe.fn = "none" THEN EnemyDrops ELSE {0} :
       LET lower(enemy) ==
             [enemy EXCEPT !.position.y = @ + drop, !.targetPosition.y = @ + drop]
           w == IF probe.fn = "none"
                THEN [World EXCEPT
                        !.gameStartTime = now,
                        !.player.position = at,
                        !.enemyObj = [id \in 1 .. enemyCount |-> lower(enemyObj[id])]]
                ELSE World
       IN /\ now' = now + dt
          /\ probe' = [fn |-> "updateEnemies",
                       calls |-> IF probe.fn = "none" THEN 1 ELSE probe.calls + 1,
                       before |-> w.enemyObj]
          /\ \E rnd \in Draws(w, now + dt) :
               Commit(updateEnemies(w, now + dt, w.gameStartTime, rnd))
  /\ UNCHANGED <<audio, keys, animationId, lastEvent, pending, frames, started, halted,
                 keyEvents, controls>>

\* updateBullets called on its own, on worlds with up to MaxProbeBullets
\* enemy bullets that fly straight at an edge of their region and are one
\* move from it, a unit of length short of that, or a unit beyond it, and with
\* a player bullet on its way to an enemy
EdgeOffsets == {0 - 1, 0, 1}

EdgeBullets ==
  LET lo == 0 - Px(enemyBulletMargin)
      hiX == Px(canvasWidth) + Px(enemyBulletMargin)
      hiY == Px(canvasHeight) + Px(enemyBulletMargin)
      midX == Px(canvasWidth) \div 2
      midY == Px(canvasHeight) \div 2
      toward(i, at) == [enemyBullet(enemyObj[1], i) EXCEPT !.position = at]
      v == Px(enemyBulletSpeed)
  IN UNION {{toward(0, Vec(hiX - v + d, midY)),
             toward(2, Vec(midX, hiY - v + d)),
             toward(4, Vec(lo + v - d, midY)),
             toward(6, Vec(midX, lo + v - d))} : d \in EdgeOffsets}

CallUpdateBullets ==
  /\ probe = NoProbe
  /\ \E ebs \in SeqsUpTo(EdgeBullets, MaxProbeBullets),
        pbs \in SeqsUpTo(PlayerBulletSpots, 1), target \in Range(enemies) :
       LET w == [World EXCEPT
                   !.playerBullets = [i \in 1 .. Len(pbs) |->
                                        [position |-> pbs[i],
                                         velocity |-> Vec(0, 0),
                                         radius |-> Px(playerBulletRadius),
                                         isPlayerBullet |-> TRUE,
                                         targetEnemy |-> target]],
                   !.enemyBullets = ebs]
       IN /\ probe' = [fn |-> "updateBullets", w |-> w]
          /\ Commit(updateBullets(w))
  /\ UNCHANGED <<audio, keys, animationId, lastEvent, pending, frames, now, started, halted,
                 keyEvents, controls>>

UnitNext ==
  \/ CallUpdatePlayer
  \/ CallUpdateBullets
  \/ CallUpdateEnemies
  \/ CallGetClosestEnemy
  \/ CallCheckCollision
  \/ CallClamp
  \/ CallGetHighScores
  \/ CallGetMuteState
  \/ CallSaveHighScore
  \/ CallCheckCollisions

UnitSpec == Init /\ [][UnitNext]_vars

\* ------------------------------------------- the audio module on its own
\* the exported functions startBGM, stopBGM and toggleMute called in any
\* order, and the callbacks of the interval timers, in a page loaded with
\* anything under the mute key; the model stops starting after MaxNodes
\* oscillators
MaxNodes == 3

audioFrame == <<player, enemyObj, enemies, playerBullets, enemyBullets, state, score,
                gameStartTime, stored, reported, hits, keys, animationId, lastEvent,
                pending, frames, now, started, halted, keyEvents, controls, probe>>

AudioInit ==
  /\ GameInit
  /\ \E held \in Items : audio = loadAudio(held.item)

CallStartBGM ==
  /\ audio.created < MaxNodes
  /\ \E contextMade \in BOOLEAN :
       audio' = [startBGM([audio EXCEPT !.silenced = FALSE], contextMade)
                   EXCEPT !.call = "startBGM"]
  /\ UNCHANGED audioFrame

CallStopBGM ==
  /\ audio' = [stopBGM(audio) EXCEPT !.call = "stopBGM"]
  /\ UNCHANGED audioFrame

CallToggleMute ==
  /\ audio' = [toggleMute([audio EXCEPT !.silenced = FALSE]) EXCEPT !.call = "toggleMute"]
  /\ UNCHANGED audioFrame

IntervalCallback ==
  /\ \E timer \in audio.timers :
       audio' = [bgmTick([audio EXCEPT !.silenced = FALSE], timer)
                   EXCEPT !.call = "interval"]
  /\ UNCHANGED audioFrame

AudioNext ==
  \/ CallStartBGM
  \/ CallStopBGM
  \/ CallToggleMute
  \/ IntervalCallback

AudioSpec == AudioInit /\ [][AudioNext]_vars

\* ------------------------------------------------- ticks that never end
\* the game compares Date.now() with the times it has stored and reads
\* nothing else of them: a tick at now + dt on the times as stored does what
\* a tick at now does on the times moved back by dt, and a time farther back
\* than every interval the game compares with does what any such time does.
\* So the ticks of this specification leave the clock where it is and move
\* the stored times back, no farther than oldest
oldest == now - rampUpTime - DtStall

rebase(w, dt) ==
  LET back(time) == Max(time - dt, oldest)
  IN [w EXCEPT
        !.player.lastShotTime = back(@),
        !.gameStartTime = back(@),
        !.enemyObj = [id \in 1 .. enemyCount |->
                        [@[id] EXCEPT !.lastShotTime = back(@),
                                      !.targetChangeTime = back(@)]]]

\* a round long in progress. Enemy 3 was destroyed at one of Graves while a
\* second bullet was on its way to it; the enemies that are left have drawn
\* the target (0, 0) since and stand in the corner of their region, where
\* they fire at every tick; the player stands where it started, with its
\* last life or with all of them.
\* Graves: between the volleys of the corner, a bullet's move below the one
\* that flies along the top of the region; and lower, farther from it
Graves == {Vec(Px(48), Px(24)), Vec(Px(49), Px(33))}

\* how far below the grave the second bullet is: on it, or a quarter of its
\* move short of it
Approaches == {0, Px(playerBulletSpeed) \div 4}

\* the enemies array without enemy 3
Survivors == {ids \in EnemyArrays : enemyCount \notin Range(ids)}

corner == Vec(Px(enemyRadius), Px(enemyRadius))

\* the ticks an enemy bullet can fly before it is out of its bounds
MaxFlight == (Px(canvasHeight) + 2 * Px(enemyBulletMargin)) \div Px(enemyBulletSpeed)

\* the bullets an enemy fired k ticks ago that are still in their bounds
firedAgo(e, k) ==
  SelectSeq([i \in 1 .. enemyBulletDirections |->
               LET bullet == enemyBullet(e, i - 1)
               IN [bullet EXCEPT !.position = Vec(@.x + k * bullet.velocity.x,
                                                  @.y + k * bullet.velocity.y)]],
            inEnemyBulletBounds)

RECURSIVE volleys(_, _, _)
volleys(objs, ids, k) ==
  IF ids = <<>> THEN <<>>
  ELSE firedAgo(objs[Head(ids)], k) \o volleys(objs, Tail(ids), k)

\* the enemy bullets in flight when the enemies ids have fired at every one
\* of the last k ticks from where they are, the oldest first
RECURSIVE inFlight(_, _, _)
inFlight(objs, ids, k) ==
  IF k = 0 THEN <<>> ELSE volleys(objs, ids, k) \o inFlight(objs, ids, k - 1)

roundInProgress(ids, grave, approach, at, lives) ==
  LET objs == [id \in 1 .. enemyCount |->
                 [position |-> IF id = enemyCount THEN grave ELSE corner,
                  velocity |-> Vec(0, 0),
                  radius |-> Px(enemyRadius),
                  lastShotTime |-> Epoch,
                  targetChangeTime |-> Epoch,
                  targetPosition |-> Vec(0, 0)]]
  IN [player |-> [createPlayer EXCEPT !.position = at, !.lives = lives,
                                      !.lastShotTime = Epoch - rampUpTime - DtStall],
      enemyObj |-> objs,
      enemies |-> ids,
      playerBullets |-> <<[position |-> Vec(grave.x, grave.y + approach),
                           velocity |-> Vec(0, 0 - Px(playerBulletSpeed)),
                           radius |-> Px(playerBulletRadius),
                           isPlayerBullet |-> TRUE,
                           targetEnemy |-> enemyCount]>>,
      enemyBullets |-> inFlight(objs, ids, MaxFlight),
      state |-> "playing",
      score |-> scorePerEnemy * (enemyCount - Len(ids)),
      gameStartTime |-> Epoch - rampUpTime - DtStall,
      stored |-> saveHighScore(NoItem, 0).stored,
      reported |-> <<>>,
      hits |-> 0]

LiveInit ==
  /\ \E ids \in Survivors, grave \in Graves, approach \in Approaches,
        at \in {createPlayer.position}, lives \in {1, playerLives} :
       LET w == roundInProgress(ids, grave, approach, at, lives)
       IN /\ player = w.player
          /\ enemyObj = w.enemyObj
          /\ enemies = w.enemies
          /\ playerBullets = w.playerBullets
          /\ enemyBullets = w.enemyBullets
          /\ state = w.state
          /\ score = w.score
          /\ gameStartTime = w.gameStartTime
          /\ stored = w.stored
          /\ reported = w.reported
          /\ hits = w.hits
  /\ keys = {}
  /\ animationId = 1
  /\ lastEvent = "frame"
  /\ pending = {1}
  /\ frames = 1
  /\ now = Epoch
  /\ started = TRUE
  /\ halted = FALSE
  /\ keyEvents = 0
  /\ controls = 0
  /\ probe = NoProbe
  /\ audio = loadAudio(NoItem)

\* the draws of a pass in which every enemy that chooses a new target takes
\* the first branch of its choice, Math.random() < 0.5
CornerDraws(w, t) ==
  {rnd \in Draws(w, t) : \A id \in 1 .. enemyCount : 2 * rnd[id] < RandomDen}

\* what a frame callback does to the requests: it leaves the scheduler's
\* list, and in the state playing gameLoop asks for the next frame. The
\* request ids of this specification are 1 and 2 in turn
FrameRuns ==
  /\ started
  /\ pending # {}
  /\ pending' = IF state # "playing" THEN {} ELSE {3 - animationId}

\* the frame callback of a game that was started, one frame after the one
\* before
LiveFrame ==
  /\ FrameRuns
  /\ lastEvent' = "frame"
  /\ IF state # "playing"
     THEN UNCHANGED <<gameVars, animationId>>
     ELSE /\ \E rnd \in CornerDraws(World, now + DtFrame) :
               Commit(rebase(update(World, keys, now + DtFrame, gameStartTime, rnd),
                             DtFrame))
          /\ animationId' = 3 - animationId
  /\ UNCHANGED <<audio, probe, keys, frames, now, started, halted, keyEvents, controls>>

LiveNext ==
  \/ LiveFrame
  \/ KeyDown
  \/ KeyUp

\* the browser runs a frame callback that was requested, so while one is
\* held ticks keep running. Of the steps of LiveNext those of LiveFrame
\* change pending, and LiveFrame can run whenever FrameRuns can
LiveSpec ==
  /\ LiveInit
  /\ [][LiveNext]_vars
  /\ WF_pending(FrameRuns)

\* ----------------------------------------------------------------- claims
\* what a tick moves: the player (with its lives), the enemies, the bullets,
\* and the score
sim == <<player, enemyObj, enemies, playerBullets, enemyBullets, score>>

\* a pass of gameLoop ran its updates in this step
Ticked == frames' = frames + 1

Terminal == {"gameOver", "gameClear"}

\* C1: while the state is paused, gameOver or gameClear, a frame callback
\* that fires changes neither the player, the enemies, the bullets, the lives
\* nor the score and requests no frame; from such a state only a resume (from
\* paused) or a restart runs a tick
C1_FrozenUnlessPlaying ==
  [][state # "playing" =>
       /\ lastEvent' = "frame" =>
            /\ sim' = sim
            /\ frames' = frames
            /\ animationId' = animationId
            /\ pending' \subseteq pending
       /\ (sim' # sim \/ Ticked) =>
            \/ lastEvent' = "restart"
            \/ lastEvent' = "togglePause" /\ state = "paused"]_vars

\* a frame callback has fired in the paused state
C1_Witness == state = "paused" /\ lastEvent = "frame" /\ frames > 0

\* C2: the state changes only from playing to paused by the pause action, from
\* paused to playing by the resume action (whose tick may end the round), from
\* playing to gameOver or gameClear by a tick, and from any state to playing
\* by restart; nothing but restart leaves gameOver or gameClear
C2_StateEdges ==
  [][state' # state =>
       /\ \/ state = "playing" /\ state' = "paused" /\ lastEvent' = "togglePause"
          \/ state = "paused" /\ lastEvent' = "togglePause" /\ Ticked
               /\ \/ state' = "playing"
                  \/ state' = "gameOver" /\ player'.lives <= 0
                  \/ state' = "gameClear" /\ enemies' = <<>>
          \/ state = "playing" /\ state' = "gameOver" /\ Ticked /\ player'.lives <= 0
          \/ state = "playing" /\ state' = "gameClear" /\ Ticked /\ enemies' = <<>>
          \/ lastEvent' = "restart" /\ state' = "playing"
       /\ state \in Terminal => lastEvent' = "restart"]_vars

\* a restart, the only click of the run, after a round that saved a score
C2_Witness ==
  /\ lastEvent = "restart"
  /\ state = "playing"
  /\ controls = 1
  /\ getHighScores(stored)[1] > 0

\* C3 as stated: a pause action that follows a pause action leaves the state
\* paused
C3_PauseIdempotent ==
  [][(state = "paused" /\ lastEvent = "togglePause"
        /\ lastEvent' = "togglePause" /\ controls' = controls + 1)
       => state' = "paused"]_vars

\* C3 amended: the pause action toggles: in the paused state it sets the state
\* to playing and runs a tick at once, so that the state is no longer paused
C3_PauseToggles ==
  [][(state = "paused" /\ lastEvent' = "togglePause" /\ controls' = controls + 1)
       => /\ Ticked
          /\ \/ state' = "playing"
             \/ state' = "gameOver" /\ player'.lives <= 0
             \/ state' = "gameClear" /\ enemies' = <<>>]_vars

\* two pause actions with no frame between them: the game plays again, with
\* the frame of before the pause and the frame of the resume both outstanding
C3_Witness ==
  /\ lastEvent = "togglePause"
  /\ state = "playing"
  /\ controls = 2
  /\ Cardinality(pending) = 2

\* C4 as stated: after restart the lives are playerLives, both bullet
\* collections are empty, the score is 0, there are enemyCount enemies, the
\* round started now, and the state is playing
C4_RestartResets ==
  [][(lastEvent' = "restart" /\ controls' = controls + 1)
       => /\ player'.lives = playerLives
          /\ playerBullets' = <<>>
          /\ enemyBullets' = <<>>
          /\ score' = 0
          /\ Len(enemies') = enemyCount
          /\ gameStartTime' = now'
          /\ state' = "playing"]_vars

\* C4 amended: restart empties the bullet collections and then runs the first
\* tick of the round, so that on its return they hold what that tick fired:
\* one volley for each enemy, and one player bullet if the fire key is held
C4_RestartResetsAndTicks ==
  [][(lastEvent' = "restart" /\ controls' = controls + 1)
       => /\ player'.lives = playerLives
          /\ Ticked
          /\ Len(playerBullets') = (IF "m" \in keys THEN 1 ELSE 0)
          /\ Len(enemyBullets') = enemyCount * enemyBulletDirections
          /\ score' = 0
          /\ Len(enemies') = enemyCount
          /\ gameStartTime' = now'
          /\ state' = "playing"]_vars

\* a restart after a round in which the player lost lives and scored
C4_Witness ==
  /\ lastEvent = "restart"
  /\ getHighScores(stored)[1] > 0
  /\ Len(enemyBullets) = enemyCount * enemyBulletDirections

\* C5: a tick that starts with one life and in which one enemy bullet hits the
\* player ends with no lives in the state gameOver, and from then on nothing
\* but restart moves the player, an enemy or a bullet
C5_LastLife ==
  [][/\ (Ticked /\ lastEvent' \in {"frame", "togglePause"}
           /\ player.lives = 1 /\ hits' = 1)
          => (player'.lives = 0 /\ state' = "gameOver")
     /\ (state = "gameOver" /\ lastEvent' # "restart")
          => <<player, enemyObj, enemies, playerBullets, enemyBullets>>'
               = <<player, enemyObj, enemies, playerBullets, enemyBullets>>]_vars

\* the last life was lost to a single bullet, and the frame requested by that
\* tick has fired since
C5_Witness ==
  /\ state = "gameOver"
  /\ player.lives = 0
  /\ hits = 1
  /\ lastEvent = "frame"
  /\ pending = {}

\* C6 as stated: the tick in which the last enemy is destroyed ends in the
\* state gameClear with score + lives * 100 saved, once
C6_ClearOnLastKill ==
  [][(Ticked /\ lastEvent' # "restart" /\ enemies # <<>> /\ enemies' = <<>>)
       => /\ state' = "gameClear"
          /\ reported' = <<score' + player'.lives * livesBonusPerLife>>]_vars

\* C6 amended: it does so when the player still has a life at the end of that
\* tick; a player who loses the last life in the same tick gets gameOver
C6_ClearUnlessDead ==
  [][(Ticked /\ lastEvent' # "restart" /\ enemies # <<>> /\ enemies' = <<>>)
       => IF player'.lives > 0
          THEN /\ state' = "gameClear"
               /\ reported' = <<score' + player'.lives * livesBonusPerLife>>
          ELSE state' = "gameOver"]_vars

\* the round was cleared by a player who had lost lives
C6_Witness ==
  /\ state = "gameClear"
  /\ player.lives < playerLives
  /\ enemies = <<>>
  /\ lastEvent = "frame"

\* C7: the lives are never negative
C7_LivesNonNegative == player.lives >= 0

\* C8: in a tick that neither adds nor removes a player bullet, a bullet whose
\* target is no longer in the enemy collection keeps its velocity
C8_StaleTargetFliesStraight ==
  [][(Ticked /\ lastEvent' \in {"frame", "togglePause"} /\ "m" \notin keys
        /\ Len(playerBullets') = Len(playerBullets))
       => \A i \in 1 .. Len(playerBullets) :
            playerBullets[i].targetEnemy \notin Range(enemies)
              => playerBullets'[i].velocity = playerBullets[i].velocity]_vars

\* C9: the frame scheduler never holds more than one callback of the game
C9_SingleChain == Cardinality(pending) <= 1

\* C10: after stop(), and until a start, resume or restart, no frame callback
\* runs a tick
C10_NoTickAfterStop ==
  [][halted => ~(lastEvent' = "frame" /\ Ticked)]_vars

\* C11: the player's circle is inside the playfield: radius <= x <= canvasWidth
\* - radius and radius <= y <= canvasHeight - radius
C11_PlayerInPlayfield ==
  /\ player.radius <= player.position.x
  /\ player.position.x <= Px(canvasWidth) - player.radius
  /\ player.radius <= player.position.y
  /\ player.position.y <= Px(canvasHeight) - player.radius

\* a tick with the down key held has left the player on the lower edge, and
\* one with the left key held to the left of where it starts
C11_Witness ==
  /\ lastEvent = "frame"
  /\ keys = {"a", "s"}
  /\ player.position.y = Px(canvasHeight) - player.radius
  /\ player.position.x < createPlayer.position.x

\* the player bullets after a step that are the bullet `bullet` of before
\* it, moved once
movedFrom(bullet) ==
  {j \in 1 .. Len(playerBullets') :
     /\ playerBullets'[j].targetEnemy = bullet.targetEnemy
     /\ playerBullets'[j].position.x - playerBullets'[j].velocity.x = bullet.position.x
     /\ playerBullets'[j].position.y - playerBullets'[j].velocity.y = bullet.position.y}

\* C12: in a tick in which the target of a player bullet is in the enemy
\* collection and does not move, the bullet, if it is still there after the
\* tick, is strictly nearer to the target than before; and a bullet that
\* started within one step of touching the target is not there after the tick
\* unless the target is gone
C12_HomingConverges ==
  [][(Ticked /\ lastEvent' \in {"frame", "togglePause"}) =>
       \A i \in 1 .. Len(playerBullets) :
         LET bullet == playerBullets[i]
             target == bullet.targetEnemy
             at == enemyObj[target].position
             reach == Px(playerBulletSpeed) + bullet.radius + enemyObj[target].radius - FP
         IN (target \in Range(enemies) /\ enemyObj'[target].position = at) =>
              /\ \A j \in movedFrom(bullet) :
                   distSq(playerBullets'[j].position, at) < distSq(bullet.position, at)
              /\ distSq(bullet.position, at) < reach * reach =>
                   (movedFrom(bullet) = {} \/ target \notin Range(enemies'))]_vars

\* a bullet fired in an earlier tick is in flight to an enemy that is in the
\* collection and stands still
C12_Witness ==
  /\ lastEvent = "frame"
  /\ "m" \notin keys
  /\ \E i \in 1 .. Len(playerBullets) :
       /\ playerBullets[i].targetEnemy \in Range(enemies)
       /\ enemyObj[playerBullets[i].targetEnemy].velocity = Vec(0, 0)

\* the time of the last volley of an enemy before the step: restart makes
\* new enemies, which have fired no volley
lastShotBefore(id) == IF lastEvent' = "restart" THEN 0 ELSE enemyObj[id].lastShotTime

\* the enemy bullets a step starts with: restart empties the collection
enemyBulletsBefore == IF lastEvent' = "restart" THEN <<>> ELSE enemyBullets

\* the enemy fires in the tick of this step
fires(id) == now' - lastShotBefore(id) > shootIntervalAt(now', gameStartTime')

\* the enemies that fire in the tick of this step, in the order of the array
firing == SelectSeq(enemies', fires)

stillInBounds(bullet) == inEnemyBulletBounds(moveEnemyBullet(bullet))

dot(u, v) == u.x * v.x + u.y * v.y

cross(u, v) == u.x * v.y - u.y * v.x

\* what rounding to the fixed-point grid may change in a product of two
\* velocities of enemy bullets
velocityTolerance == 2 * Px(enemyBulletSpeed)

\* C13: in a tick with no player bullet and no hit on the player, the enemy
\* bullets are those of before that stay in bounds, followed by one volley
\* for each enemy that fires: enemyBulletDirections bullets, not player
\* bullets, that left the position of the enemy, the first along the x axis,
\* all with the speed enemyBulletSpeed, each turned from the one before by the
\* same angle, the circle closed after one turn; the enemy's lastShotTime is
\* the time of the tick, and that of an enemy that does not fire is unchanged
C13_Volley ==
  [][(/\ Ticked
      /\ lastEvent' = "restart" \/ playerBullets = <<>>
      /\ "m" \notin keys
      /\ hits' = 0) =>
       \A kept \in {Len(SelectSeq(enemyBulletsBefore, stillInBounds))} :
       \A shooters \in {firing} :
         LET N == enemyBulletDirections
             speedSq == Px(enemyBulletSpeed) * Px(enemyBulletSpeed)
             near(a, b) == Abs(a - b) <= velocityTolerance
         IN /\ Len(enemyBullets') = kept + N * Len(shooters)
            /\ \A id \in Range(enemies') :
                 enemyObj'[id].lastShotTime = IF fires(id) THEN now' ELSE lastShotBefore(id)
            /\ \A k \in 1 .. Len(shooters) :
                 \A volley \in {SubSeq(enemyBullets', kept + N * (k - 1) + 1, kept + N * k)} :
                   /\ volley[1].velocity = Vec(Px(enemyBulletSpeed), 0)
                   /\ \A i \in 1 .. N :
                        LET b == volley[i]
                            next == volley[(i % N) + 1]
                            from == enemyObj'[shooters[k]].position
                        IN /\ ~b.isPlayerBullet
                           /\ b.position.x - b.velocity.x = from.x
                           /\ b.position.y - b.velocity.y = from.y
                           /\ near(dot(b.velocity, b.velocity), speedSq)
                           /\ cross(b.velocity, next.velocity) > 0
                           /\ dot(b.velocity, next.velocity) > 0
                           /\ near(dot(b.velocity, next.velocity),
                                   dot(volley[1].velocity, volley[2].velocity))
                           /\ near(cross(b.velocity, next.velocity),
                                   cross(volley[1].velocity, volley[2].velocity))]_vars

\* a frame's tick in which an enemy fired while bullets of an earlier volley
\* were in flight
C13_Witness ==
  /\ lastEvent = "frame"
  /\ playerBullets = <<>>
  /\ "m" \notin keys
  /\ hits = 0
  /\ \E id \in Range(enemies) : enemyObj[id].lastShotTime = now
  /\ Len(enemyBullets) > enemyCount * enemyBulletDirections

\* C14: checkCollision(a, b) is true when the centres are nearer than the sum
\* of the radii, false when they are at that distance exactly and when they are
\* farther, and the same for (b, a)
C14_StrictOverlap ==
  probe.fn = "checkCollision" =>
    LET between == distSq(probe.a.position, probe.b.position)
        reach == probe.a.radius + probe.b.radius
    IN /\ between < reach * reach => probe.out
       /\ between = reach * reach => ~probe.out
       /\ between > reach * reach => ~probe.out
       /\ probe.out <=> distance(probe.a.position, probe.b.position) < reach
       /\ probe.out = checkCollision(probe.b, probe.a)

\* two circles that touch in one point, their centres on no common axis
C14_Witness ==
  /\ probe.fn = "checkCollision"
  /\ probe.a.position.x # probe.b.position.x
  /\ probe.a.position.y # probe.b.position.y
  /\ distSq(probe.a.position, probe.b.position)
       = (probe.a.radius + probe.b.radius) * (probe.a.radius + probe.b.radius)
  /\ ~probe.out

\* C15: for min <= max, clamp(value, min, max) is in [min, max]; it is value
\* when value is in [min, max], min when value < min, max when value > max
C15_Clamp ==
  probe.fn = "clamp" =>
    /\ probe.min <= probe.out
    /\ probe.out <= probe.max
    /\ (probe.min <= probe.value /\ probe.value <= probe.max) => probe.out = probe.value
    /\ probe.value < probe.min => probe.out = probe.min
    /\ probe.value > probe.max => probe.out = probe.max

\* a value above the bounds was clamped to the upper one
C15_Witness ==
  /\ probe.fn = "clamp"
  /\ probe.min < probe.max
  /\ probe.value > probe.max
  /\ probe.out = probe.max

\* how many times v is in the sequence s
Count(s, v) == Cardinality({i \in DOMAIN s : s[i] = v})

\* C16: on a store that only saveHighScore has written, saveHighScore returns
\* three scores in non-increasing order: the loaded list and the new score
\* without one score that is no larger than any of the three; the key then
\* holds the text of that list, and getHighScores returns it
C16_TopThree ==
  probe.fn = "saveHighScore" =>
    LET all == Append(probe.loaded, probe.newScore)
        out == probe.out
    IN /\ Len(out) = 3
       /\ out[1] >= out[2]
       /\ out[2] >= out[3]
       /\ \E k \in 1 .. Len(all) :
            /\ all[k] <= out[3]
            /\ \A v \in Range(all) : Count(out, v) = Count(RemoveAt(all, k), v)
       /\ stored.present
       /\ stored.text = <<Tok("["), Num(out[1]), Tok(","), Num(out[2]), Tok(","),
                          Num(out[3]), Tok("]")>>
       /\ getHighScores(stored) = out

\* a score saved between the first and the last of a list of three scores
C16_Witness ==
  /\ probe.fn = "saveHighScore"
  /\ probe.loaded[3] > 0
  /\ probe.newScore > probe.loaded[3]
  /\ probe.newScore < probe.loaded[1]
  /\ probe.out[2] = probe.newScore

\* C17: getHighScores returns [0, 0, 0] when the key holds nothing, a text
\* that JSON.parse rejects, or JSON that is no array, and the array when it
\* holds one; getMuteState returns false when the key holds nothing or no
\* JSON, and for the text false
C17_Defaults ==
  /\ probe.fn = "getHighScores" =>
       /\ probe.held.kind # "array" => probe.out = <<0, 0, 0>>
       /\ probe.held.kind = "array" => probe.held.item = setItem(JSONstringify(probe.out))
  /\ probe.fn = "getMuteState" =>
       /\ probe.held.kind \in {"missing", "invalid"} => ~probe.out
       /\ probe.held.item = setItem(<<Tok("false")>>) => ~probe.out
       /\ probe.held.item = setItem(<<Tok("true")>>) => probe.out

\* getHighScores read the JSON of something that is no array
C17_Witness ==
  /\ probe.fn = "getHighScores"
  /\ probe.held.kind = "notArray"
  /\ probe.out = <<0, 0, 0>>

\* in the world w a bullet touches an enemy of the array, and an enemy bullet
\* touches the player
touchesEnemy(w, bullet) ==
  \E k \in 1 .. Len(w.enemies) : checkCollision(bullet, w.enemyObj[w.enemies[k]])

offPlayer(bullet) == ~checkCollision(bullet, probe.w.player)

\* the enemies destroyed, and the player bullets cancelled, by the pass of
\* checkCollisions on probe.w
destroyed == Len(probe.w.enemies) - Len(enemies)

cancelled == Len(probe.w.playerBullets) - Len(playerBullets) - destroyed

\* C18: a pass of checkCollisions removes one enemy bullet for each player
\* bullet it cancels and one for each hit on the player.  A single player
\* bullet that touches an enemy is consumed by it and cancels no enemy bullet:
\* the enemy bullets that touch the player hit it, the others stay.  A single
\* player bullet that touches no enemy and touches an enemy bullet cancels
\* one such bullet, which does not hit the player.  The round is cleared
\* with the lives left after the hits.
C18_PhaseOrder ==
  probe.fn = "checkCollisions" =>
    LET w == probe.w
    IN /\ cancelled >= 0
       /\ Len(w.enemyBullets) - Len(enemyBullets) = cancelled + hits
       /\ player.lives = w.player.lives - hits
       /\ (Len(w.playerBullets) = 1 /\ touchesEnemy(w, w.playerBullets[1])) =>
            /\ playerBullets = <<>>
            /\ destroyed = 1
            /\ enemyBullets = SelectSeq(w.enemyBullets, offPlayer)
       /\ (/\ Len(w.playerBullets) = 1
           /\ ~touchesEnemy(w, w.playerBullets[1])
           /\ \E j \in 1 .. Len(w.enemyBullets) :
                checkCollision(w.playerBullets[1], w.enemyBullets[j])) =>
            /\ playerBullets = <<>>
            /\ destroyed = 0
            /\ \E j \in 1 .. Len(w.enemyBullets) :
                 /\ checkCollision(w.playerBullets[1], w.enemyBullets[j])
                 /\ enemyBullets = SelectSeq(RemoveAt(w.enemyBullets, j), offPlayer)
       /\ (enemies = <<>> /\ player.lives > 0) =>
            /\ state = "gameClear"
            /\ reported = <<score + player.lives * livesBonusPerLife>>

\* the player bullet touched an enemy and an enemy bullet: the enemy is gone
\* and the enemy bullet is still there
C18_Witness ==
  /\ probe.fn = "checkCollisions"
  /\ Len(probe.w.playerBullets) = 1
  /\ touchesEnemy(probe.w, probe.w.playerBullets[1])
  /\ \E j \in 1 .. Len(enemyBullets) :
       checkCollision(probe.w.playerBullets[1], enemyBullets[j])
  /\ destroyed = 1

\* C19: a pass of checkCollisions destroys no more enemies than there are
\* player bullets that touch an enemy, and adds scorePerEnemy for each; where
\* no enemy bullet touches a player bullet it removes as many player bullets
\* as enemies; an enemy that no bullet touches stays, and so does a bullet
\* that touches nothing; the enemies that stay keep their order; and no bullet
\* that stays touches an enemy that stays
C19_OneKillPerBullet ==
  probe.fn = "checkCollisions" =>
    LET w == probe.w
        aimed == {i \in 1 .. Len(w.playerBullets) : touchesEnemy(w, w.playerBullets[i])}
        meets(i) == \E j \in 1 .. Len(w.enemyBullets) :
                      checkCollision(w.playerBullets[i], w.enemyBullets[j])
    IN /\ destroyed >= 0
       /\ destroyed <= Cardinality(aimed)
       /\ aimed # {} => destroyed >= 1
       /\ score = w.score + destroyed * scorePerEnemy
       /\ (\A i \in 1 .. Len(w.playerBullets) : ~meets(i)) =>
            Len(w.playerBullets) - Len(playerBullets) = destroyed
       /\ \A k \in 1 .. Len(w.enemies) :
            (\A i \in 1 .. Len(w.playerBullets) :
               ~checkCollision(w.playerBullets[i], w.enemyObj[w.enemies[k]]))
              => w.enemies[k] \in Range(enemies)
       /\ \A i \in 1 .. Len(w.playerBullets) :
            (i \notin aimed /\ ~meets(i)) => w.playerBullets[i] \in Range(playerBullets)
       /\ enemies = SelectSeq(w.enemies, LAMBDA id : id \in Range(enemies))
       /\ \A i \in 1 .. Len(playerBullets) :
            ~touchesEnemy([w EXCEPT !.enemies = enemies], playerBullets[i])

\* one bullet touched two enemies, and one of the two is still there
C19_Witness ==
  /\ probe.fn = "checkCollisions"
  /\ Len(probe.w.playerBullets) = 1
  /\ Cardinality({k \in 1 .. Len(probe.w.enemies) :
                    checkCollision(probe.w.playerBullets[1],
                                   probe.w.enemyObj[probe.w.enemies[k]])}) = 2
  /\ destroyed = 1

\* C20: in a round gameOver and gameClear together save at most one score
C20_OneSavePerRound == Len(reported) <= 1

\* C21: a pass of checkCollisions in the state playing ends in gameClear only
\* with no enemy left and a life left, and then saves the score with the
\* bonus of the lives once; a pass that destroys the last enemy and takes the
\* last life ends in gameOver, and every score it saves is the score without
\* a bonus
C21_GameOverWins ==
  probe.fn = "checkCollisions" =>
    /\ state = "gameClear" =>
         /\ enemies = <<>>
         /\ player.lives > 0
         /\ reported = <<score + player.lives * livesBonusPerLife>>
    /\ (enemies = <<>> /\ player.lives <= 0) =>
         /\ state = "gameOver"
         /\ reported # <<>>
         /\ \A k \in 1 .. Len(reported) : reported[k] = score
    /\ state \in {"playing", "gameOver", "gameClear"}
    /\ state = "playing" => (enemies # <<>> /\ player.lives > 0 /\ reported = <<>>)

\* the pass destroyed the last enemy and took the last life
C21_Witness ==
  /\ probe.fn = "checkCollisions"
  /\ destroyed >= 1
  /\ enemies = <<>>
  /\ hits >= 1
  /\ player.lives = 0
  /\ state = "gameOver"

\* C22: the score is scorePerEnemy for each enemy that has left the
\* collection; a step that is no restart neither lowers the score nor adds an
\* enemy; and in the state gameClear the score is enemyCount * scorePerEnemy
\* and the player has a life
C22_ScoreCountsKills ==
  /\ [](/\ score = scorePerEnemy * (enemyCount - Len(enemies))
        /\ state = "gameClear" =>
             (score = enemyCount * scorePerEnemy /\ player.lives >= 1))
  /\ [][lastEvent' # "restart" =>
          (score' >= score /\ Len(enemies') <= Len(enemies))]_vars

\* a frame destroyed the first enemy of a round, and the round goes on
C22_Witness ==
  /\ state = "playing"
  /\ score = scorePerEnemy
  /\ Len(enemies) = enemyCount - 1
  /\ lastEvent = "frame"

\* C23: a call of updatePlayer with the fire key held, at least
\* playerShootCooldown after lastShotTime and with an enemy in the collection,
\* appends one bullet at the player's position that targets an enemy of the
\* collection no farther than any other, and sets lastShotTime to now; every
\* other call leaves the bullets and lastShotTime as they are; so lastShotTime
\* moves by playerShootCooldown or more
C23_FireCooldown ==
  [][probe'.fn = "updatePlayer" =>
       LET canShoot == /\ "m" \in keys'
                       /\ now' - player.lastShotTime >= playerShootCooldown
                       /\ enemies' # <<>>
       IN /\ canShoot =>
               /\ Len(playerBullets') = Len(playerBullets) + 1
               /\ SubSeq(playerBullets', 1, Len(playerBullets)) = playerBullets
               /\ LET bullet == playerBullets'[Len(playerBullets')]
                  IN /\ bullet.position = player'.position
                     /\ bullet.isPlayerBullet
                     /\ bullet.targetEnemy \in Range(enemies')
                     /\ \A id \in Range(enemies') :
                          distSq(player'.position, enemyObj[bullet.targetEnemy].position)
                            <= distSq(player'.position, enemyObj[id].position)
               /\ player'.lastShotTime = now'
          /\ ~canShoot =>
               /\ playerBullets' = playerBullets
               /\ player'.lastShotTime = player.lastShotTime
          /\ player'.lastShotTime # player.lastShotTime =>
               player'.lastShotTime - player.lastShotTime >= playerShootCooldown]_vars

\* the fire key was held one millisecond before the end of the cooldown, with
\* an enemy there: the one bullet is that of the call before
C23_Witness ==
  /\ probe.fn = "updatePlayer"
  /\ "m" \in keys
  /\ enemies # <<>>
  /\ now - player.lastShotTime = playerShootCooldown - 1
  /\ Len(playerBullets) = 1

\* C24: getClosestEnemy returns no enemy exactly when the collection is
\* empty; otherwise it returns an enemy of the collection that is no farther
\* from the player than any other, and every enemy before it in the collection
\* is farther
C24_ClosestFirst ==
  probe.fn = "getClosestEnemy" =>
    LET w == probe.w
        far(k) == distSq(w.player.position, w.enemyObj[w.enemies[k]].position)
    IN /\ (probe.out = NoEnemy) <=> (w.enemies = <<>>)
       /\ probe.out # NoEnemy =>
            \E k \in 1 .. Len(w.enemies) :
              /\ w.enemies[k] = probe.out
              /\ \A j \in 1 .. Len(w.enemies) : far(k) <= far(j)
              /\ \A j \in 1 .. (k - 1) : far(j) > far(k)

\* the second of three enemies was returned, with the third as near and the
\* first farther
C24_Witness ==
  /\ probe.fn = "getClosestEnemy"
  /\ Len(probe.w.enemies) = 3
  /\ probe.out = probe.w.enemies[2]
  /\ distSq(probe.w.player.position, probe.w.enemyObj[probe.w.enemies[3]].position)
       = distSq(probe.w.player.position, probe.w.enemyObj[probe.out].position)

\* C25: a call of updateEnemies makes an enemy fire exactly when more than
\* the interval has passed since its lastShotTime: enemyShootInterval before
\* rampUpTime has passed since the start of the round, half of it from then
\* on; and once the round has reached rampUpTime it stays there
C25_ShootInterval ==
  [][probe'.fn = "updateEnemies" =>
       LET roundStart == gameStartTime'
           interval == IF now' - roundStart < rampUpTime
                       THEN enemyShootInterval
                       ELSE enemyShootInterval \div 2
       IN /\ \A id \in Range(enemies) :
               LET since == now' - enemyObj[id].lastShotTime
                   N == enemyBulletDirections
               IN /\ (enemyObj'[id].lastShotTime # enemyObj[id].lastShotTime)
                       <=> (since > interval)
                  /\ since > interval => enemyObj'[id].lastShotTime = now'
          /\ Len(enemyBullets') - Len(enemyBullets)
               = enemyBulletDirections
                   * Cardinality({id \in Range(enemies) :
                                    now' - enemyObj[id].lastShotTime > interval})
          /\ (probe.fn = "updateEnemies" /\ now - gameStartTime >= rampUpTime)
               => now' - gameStartTime' >= rampUpTime]_vars

\* the enemies fired at rampUpTime after the start of the round, a frame
\* after they had fired
C25_Witness ==
  /\ probe.fn = "updateEnemies"
  /\ probe.calls = 3
  /\ now - gameStartTime = rampUpTime
  /\ Len(enemyBullets) = 3 * enemyCount * enemyBulletDirections
  /\ \A id \in Range(enemies) : enemyObj[id].lastShotTime = now

\* an enemy's circle is inside the enemies' region
inEnemyRegion(enemy) ==
  /\ enemy.radius <= enemy.position.x
  /\ enemy.position.x <= Px(canvasWidth) - enemy.radius
  /\ enemy.radius <= enemy.position.y
  /\ enemy.position.y <= Px(canvasHeight) \div 2

\* C26: every enemy of the collection has radius <= x <= canvasWidth - radius
\* and radius <= y <= canvasHeight / 2
C26_EnemiesInRegion ==
  \A id \in Range(enemies) : inEnemyRegion(enemyObj[id])

\* a call of updateEnemies found an enemy on the upper edge of the region,
\* on its way to a target near the player that is above the playfield, and
\* left it there
C26_Witness ==
  /\ probe.fn = "updateEnemies"
  /\ \E id \in Range(enemies) :
       /\ enemyObj[id].position.y = enemyObj[id].radius
       /\ enemyObj[id].targetPosition.y < 0
       /\ probe.before[id].position.y = enemyObj[id].radius
       /\ probe.before[id].targetPosition = enemyObj[id].targetPosition

\* the point at is in [lo, hiX] x [lo, hiY]
inBox(at, lo, hiX, hiY) == lo <= at.x /\ at.x <= hiX /\ lo <= at.y /\ at.y <= hiY

\* where a bullet that flies straight is after a move
ahead(bullet) ==
  Vec(bullet.position.x + bullet.velocity.x, bullet.position.y + bullet.velocity.y)

staysIn(bullet) ==
  inBox(ahead(bullet), 0 - Px(enemyBulletMargin), Px(canvasWidth) + Px(enemyBulletMargin),
        Px(canvasHeight) + Px(enemyBulletMargin))

\* C27: every player bullet is in [0, canvasWidth] x [0, canvasHeight] and
\* every enemy bullet in [-10, canvasWidth + 10] x [-10, canvasHeight + 10];
\* a call of updateBullets keeps, in their order and moved, the enemy bullets
\* that the move leaves in that region or on its edge, and no other
C27_BulletsInBounds ==
  /\ \A i \in 1 .. Len(playerBullets) :
       inBox(playerBullets[i].position, 0, Px(canvasWidth), Px(canvasHeight))
  /\ \A i \in 1 .. Len(enemyBullets) :
       inBox(enemyBullets[i].position, 0 - Px(enemyBulletMargin),
             Px(canvasWidth) + Px(enemyBulletMargin),
             Px(canvasHeight) + Px(enemyBulletMargin))
  /\ probe.fn = "updateBullets" =>
       LET kept == SelectSeq(probe.w.enemyBullets, staysIn)
       IN /\ Len(enemyBullets) = Len(kept)
          /\ \A i \in 1 .. Len(kept) :
               enemyBullets[i] = [kept[i] EXCEPT !.position = ahead(kept[i])]
          /\ Len(playerBullets) = Len(probe.w.playerBullets)

\* of two enemy bullets the call kept the one its move took onto the right
\* edge and removed the one its move took a unit beyond
C27_Witness ==
  /\ probe.fn = "updateBullets"
  /\ Len(probe.w.enemyBullets) = 2
  /\ Len(enemyBullets) = 1
  /\ enemyBullets[1].position.x = Px(canvasWidth) + Px(enemyBulletMargin)
  /\ \E i \in 1 .. 2 :
       ahead(probe.w.enemyBullets[i]).x = Px(canvasWidth) + Px(enemyBulletMargin) + 1

\* the player bullets whose target is no longer in the enemies array
orphans == {i \in DOMAIN playerBullets : playerBullets[i].targetEnemy \notin Range(enemies)}

\* C28: while ticks keep running in the state playing no bullet stays in its
\* collection for ever; so a player bullet whose target was destroyed is
\* removed in the end: again and again the state is not playing, or no such
\* bullet is in playerBullets (an enemy is destroyed at most enemyCount times
\* in a round, so such bullets that are there for ever include one that is
\* never removed)
C28_BulletsLeave ==
  []<>(state # "playing" \/ orphans = {})

\* C29: while the module is muted there is no oscillator and no interval
\* timer, neither in its variables nor running; at every time at most one
\* oscillator runs and at most one timer is set, those of the variables;
\* startBGM changes nothing while muted; and a toggleMute that mutes leaves
\* no oscillator and no timer
C29_MutedMeansSilent ==
  /\ [](/\ audio.isMutedState =>
             /\ audio.bgmOscillator = NoNode
             /\ audio.bgmInterval = NoNode
             /\ audio.oscillators = {}
             /\ audio.timers = {}
        /\ audio.oscillators = {audio.bgmOscillator} \ {NoNode}
        /\ {timer.id : timer \in audio.timers} = {audio.bgmInterval} \ {NoNode}
        /\ Cardinality(audio.timers) <= 1)
  /\ [][/\ (audio'.call = "startBGM" /\ audio.isMutedState) =>
             [audio' EXCEPT !.call = audio.call, !.silenced = audio.silenced] = audio
        /\ (audio'.call = "toggleMute" /\ ~audio.isMutedState) =>
             /\ audio'.isMutedState
             /\ audio'.oscillators = {}
             /\ audio'.timers = {}]_vars

\* toggleMute muted the module while the background music ran, and stopped it
C29_Witness ==
  /\ audio.call = "toggleMute"
  /\ audio.isMutedState
  /\ audio.silenced
  /\ audio.oscillators = {}

====
